---- MODULE Spec2Model ----
(***************************************************************************)
(* Test-case exporter: load_test_cases_from_file (JSON / C# / Python       *)
(* extraction), the command's main block, export_all_formats and the       *)
(* defaulting done by the Word, Excel and PDF sinks.                       *)
(*                                                                         *)
(* Text is modelled as a sequence of one-character strings, so that        *)
(* formatting (TC_%03d), str(), lower(), strip(), split() and replace()    *)
(* are computed and not assumed.  Python values are tagged records.        *)
(***************************************************************************)
EXTENDS Integers, Sequences, FiniteSets, TLC

\* ---------------------------------------------------------------- bounds
\* longest JSON batch drawn for the input file
MaxRecords == 2
\* longest C# / Python source text, counted in source items
MaxItems == 2

\* ---------------------------------------------------------- Python values
PyNone == [t |-> "none"]
PyStr(s) == [t |-> "str", s |-> s]
PyInt(n) == [t |-> "int", n |-> n]
PyDict(d) == [t |-> "dict", d |-> d]
PyList(l) == [t |-> "list", l |-> l]

DigitChar(d) == <<"0", "1", "2", "3", "4", "5", "6", "7", "8", "9">>[d + 1]

RECURSIVE Digits(_)
Digits(n) == IF n < 10 THEN <<DigitChar(n)>>
             ELSE Digits(n \div 10) \o <<DigitChar(n % 10)>>

RECURSIVE ZeroPad(_, _)
ZeroPad(s, w) == IF Len(s) >= w THEN s ELSE ZeroPad(<<"0">> \o s, w)

\* f'TC_{n:03d}'
TcId(n) == <<"T", "C", "_">> \o ZeroPad(Digits(n), 3)

\* str(value) for the values a record can hold
Str(v) == CASE v.t = "str" -> v.s
            [] v.t = "none" -> <<"N", "o", "n", "e">>
            [] v.t = "int" -> Digits(v.n)

\* bool(value)
Truthy(v) == CASE v.t = "none" -> FALSE
               [] v.t = "str" -> v.s # <<>>
               [] v.t = "int" -> v.n # 0
               [] v.t = "list" -> v.l # <<>>
               [] v.t = "dict" -> DOMAIN v.d # {}

\* ----------------------------------------------------------------- sinks
UnnamedTest == <<"U", "n", "n", "a", "m", "e", "d", " ", "T", "e", "s", "t">>
NA == <<"N", "/", "A">>
NotExecuted == <<"N", "o", "t", " ", "E", "x", "e", "c", "u", "t", "e", "d">>
Medium == <<"M", "e", "d", "i", "u", "m">>
Functional == <<"F", "u", "n", "c", "t", "i", "o", "n", "a", "l">>

Fields == {"id", "name", "description", "preconditions", "steps",
           "expected_result", "actual_result", "status", "priority", "test_type"}

\* test_case.get(key, default)
Get(test_case, key, default) ==
    IF key \in DOMAIN test_case.d THEN test_case.d[key] ELSE default

\* the rows start below the header row of the sheet
HeaderRow == 3

\* the ten values the Word sink writes for the record at position idx
WordRow(test_case, idx) ==
    [id |-> Str(Get(test_case, "id", PyStr(TcId(idx)))),
     name |-> Str(Get(test_case, "name", PyStr(UnnamedTest))),
     description |-> Str(Get(test_case, "description", PyStr(NA))),
     preconditions |-> Str(Get(test_case, "preconditions", PyStr(NA))),
     steps |-> Str(Get(test_case, "steps", PyStr(NA))),
     expected_result |-> Str(Get(test_case, "expected_result", PyStr(NA))),
     actual_result |-> Str(Get(test_case, "actual_result", PyStr(<<>>))),
     status |-> Str(Get(test_case, "status", PyStr(NotExecuted))),
     priority |-> Str(Get(test_case, "priority", PyStr(Medium))),
     test_type |-> Str(Get(test_case, "test_type", PyStr(Functional)))]

\* the ten cell values the Excel sink writes in sheet row row_num
ExcelRow(test_case, row_num) ==
    [id |-> Str(Get(test_case, "id", PyStr(TcId(row_num - HeaderRow)))),
     name |-> Str(Get(test_case, "name", PyStr(UnnamedTest))),
     description |-> Str(Get(test_case, "description", PyStr(NA))),
     preconditions |-> Str(Get(test_case, "preconditions", PyStr(NA))),
     steps |-> Str(Get(test_case, "steps", PyStr(NA))),
     expected_result |-> Str(Get(test_case, "expected_result", PyStr(NA))),
     actual_result |-> Str(Get(test_case, "actual_result", PyStr(<<>>))),
     status |-> Str(Get(test_case, "status", PyStr(NotExecuted))),
     priority |-> Str(Get(test_case, "priority", PyStr(Medium))),
     test_type |-> Str(Get(test_case, "test_type", PyStr(Functional)))]

\* the ten values the PDF sink writes for the record at position idx
PdfRow(test_case, idx) ==
    [id |-> Str(Get(test_case, "id", PyStr(TcId(idx)))),
     name |-> Str(Get(test_case, "name", PyStr(UnnamedTest))),
     description |-> Str(Get(test_case, "description", PyStr(NA))),
     preconditions |-> Str(Get(test_case, "preconditions", PyStr(NA))),
     steps |-> Str(Get(test_case, "steps", PyStr(NA))),
     expected_result |-> Str(Get(test_case, "expected_result", PyStr(NA))),
     actual_result |-> Str(Get(test_case, "actual_result", PyStr(<<>>))),
     status |-> Str(Get(test_case, "status", PyStr(NotExecuted))),
     priority |-> Str(Get(test_case, "priority", PyStr(Medium))),
     test_type |-> Str(Get(test_case, "test_type", PyStr(Functional)))]

Failed == [ok |-> FALSE, rows |-> <<>>]
Rendered(rows) == [ok |-> TRUE, rows |-> rows]

\* len(test_cases) and enumerate(test_cases) work, and every element has .get
AllMappings(test_cases) ==
    /\ test_cases.t = "list"
    /\ \A i \in 1..Len(test_cases.l) : test_cases.l[i].t = "dict"

\* number of records without an 'id' key among the first i records
RECURSIVE IdlessRank(_, _)
IdlessRank(l, i) == IF i = 0 THEN 0
                    ELSE IdlessRank(l, i - 1) + (IF "id" \in DOMAIN l[i].d THEN 0 ELSE 1)

\* faulty variant: the Word sink numbers the id-less records among themselves
CreateTestCaseWordByRank(test_cases) ==
    IF AllMappings(test_cases)
    THEN Rendered([i \in 1..Len(test_cases.l) |->
                      WordRow(test_cases.l[i], IdlessRank(test_cases.l, i))])
    ELSE Failed

\* create_test_case_word up to doc.save: the rows, or an exception
CreateTestCaseWord(test_cases) ==
    IF AllMappings(test_cases)
    THEN Rendered([i \in 1..Len(test_cases.l) |-> WordRow(test_cases.l[i], i)])
    ELSE Failed

\* value.lower() in the status column is called on the raw value, not on str(value)
StatusHasLower(test_case) ==
    Get(test_case, "status", PyStr(NotExecuted)).t = "str"

\* create_test_case_excel up to wb.save: the rows, or an exception
CreateTestCaseExcel(test_cases) ==
    IF /\ AllMappings(test_cases)
       /\ \A i \in 1..Len(test_cases.l) : StatusHasLower(test_cases.l[i])
    THEN Rendered([i \in 1..Len(test_cases.l) |->
                      ExcelRow(test_cases.l[i], HeaderRow + i)])
    ELSE Failed

\* create_test_case_pdf up to doc.build: the rows, or an exception
CreateTestCasePdf(test_cases) ==
    IF AllMappings(test_cases)
    THEN Rendered([i \in 1..Len(test_cases.l) |-> PdfRow(test_cases.l[i], i)])
    ELSE Failed

\* ------------------------------------------------------------ text helpers
UpperCase == <<"A", "B", "C", "D", "E", "F", "G", "H", "I", "J", "K", "L", "M",
               "N", "O", "P", "Q", "R", "S", "T", "U", "V", "W", "X", "Y", "Z">>
LowerCase == <<"a", "b", "c", "d", "e", "f", "g", "h", "i", "j", "k", "l", "m",
               "n", "o", "p", "q", "r", "s", "t", "u", "v", "w", "x", "y", "z">>

LowerChar(c) == IF \E i \in 1..26 : UpperCase[i] = c
                THEN LowerCase[CHOOSE i \in 1..26 : UpperCase[i] = c]
                ELSE c

\* str.lower()
Lower(s) == [i \in 1..Len(s) |-> LowerChar(s[i])]

\* str.rfind(c), 1-based, 0 when c does not occur
RFind(s, c) == IF \E i \in 1..Len(s) : s[i] = c
               THEN CHOOSE i \in 1..Len(s) : s[i] = c /\ \A j \in (i + 1)..Len(s) : s[j] # c
               ELSE 0

\* Path(p).name: the last component of the path
PathName(p) == SubSeq(p, RFind(p, "/") + 1, Len(p))

\* Path(p).suffix: from the last dot of the name, unless the dot leads or ends the name
Suffix(p) == LET name == PathName(p)
                 i == RFind(name, ".")
             IN IF 1 < i /\ i < Len(name) THEN SubSeq(name, i, Len(name)) ELSE <<>>

\* Path(p).stem
Stem(p) == LET name == PathName(p)
               i == RFind(name, ".")
           IN IF 1 < i /\ i < Len(name) THEN SubSeq(name, 1, i - 1) ELSE name

\* str.replace(old, new) for one-character old and new
Replace(s, old, new) == [i \in 1..Len(s) |-> IF s[i] = old THEN new ELSE s[i]]

\* str.strip(chars)
RECURSIVE LStrip(_, _)
LStrip(s, chars) == IF s # <<>> /\ Head(s) \in chars THEN LStrip(Tail(s), chars) ELSE s

RECURSIVE RStrip(_, _)
RStrip(s, chars) == IF s # <<>> /\ s[Len(s)] \in chars
                    THEN RStrip(SubSeq(s, 1, Len(s) - 1), chars) ELSE s

Strip(s, chars) == RStrip(LStrip(s, chars), chars)

\* the characters str.strip() removes, among those the inputs use
Whitespace == {" "}
\* the characters x.strip(' "') removes
QuoteOrSpace == {" ", "\""}

\* str.split(sep): always at least one part
RECURSIVE SplitFrom(_, _, _, _)
SplitFrom(s, sep, i, cur) ==
    IF i > Len(s) THEN <<cur>>
    ELSE IF s[i] = sep THEN <<cur>> \o SplitFrom(s, sep, i + 1, <<>>)
    ELSE SplitFrom(s, sep, i + 1, Append(cur, s[i]))

Split(s, sep) == SplitFrom(s, sep, 1, <<>>)

\* x or y
Or(x, y) == IF Truthy(x) THEN x ELSE y

\* ----------------------------------------------------------- source items
\* A source text is a sequence of items; an item is what one attempt of the
\* regular expressions can match:
\*   method : [/// summary] [attr(args)] (public|...)? (async Task | void) name
\*   comment: // TestCase: rest      (in .cs)   # TestCase: rest   (in .py)
\*   other  : text no pattern matches
\* summary is the group 'summary' (PyNone when the optional group took no part).
\* Each of the parts of a method (summary, attribute, declaration) and each
\* comment is a line of its own; rest is what follows 'TestCase:' on the
\* comment's line, without its leading spaces.
Method(attr, parens, args, summary, async, method) ==
    [kind |-> "method", attr |-> attr, parens |-> parens, args |-> args,
     summary |-> summary, async |-> async, method |-> method, rest |-> <<>>]
Comment(rest) ==
    [kind |-> "comment", attr |-> "", parens |-> FALSE, args |-> <<>>,
     summary |-> PyNone, async |-> FALSE, method |-> <<>>, rest |-> rest]
OtherText ==
    [kind |-> "other", attr |-> "", parens |-> FALSE, args |-> <<>>,
     summary |-> PyNone, async |-> FALSE, method |-> <<>>, rest |-> <<>>]

\* the text of an attribute name
AttrChars(attr) == CASE attr = "Fact" -> <<"F", "a", "c", "t">>
                     [] attr = "Test" -> <<"T", "e", "s", "t">>
                     [] attr = "TestCase" -> <<"T", "e", "s", "t", "C", "a", "s", "e">>
                     [] attr = "Theory" -> <<"T", "h", "e", "o", "r", "y">>

\* a line no pattern matches
OtherLine == <<"x", " ", "=", " ", "1">>

\* the first line of an item, as it stands in the file; marker is the comment
\* sign of the language ('//' or '#')
FirstLine(item, marker) ==
    CASE item.kind = "comment" ->
             marker \o <<" ", "T", "e", "s", "t", "C", "a", "s", "e", ":", " ">> \o item.rest
      [] item.kind = "other" -> OtherLine
      [] item.kind = "method" ->
             IF item.summary.t = "str"
             THEN IF item.summary.s = <<>> THEN <<"/", "/", "/">>
                  ELSE <<"/", "/", "/", " ">> \o item.summary.s
             ELSE <<"[">> \o AttrChars(item.attr)
                  \o (IF item.parens THEN <<"(">> \o item.args \o <<")">> ELSE <<>>)
                  \o <<"]">>

\* what TestCase:\s*(.*) captures for the comment at items[i], and where the
\* scan goes on: \s* also matches line ends, so when nothing follows the colon
\* on the comment's line the group takes the whole next line
Captured(items, i, marker) ==
    IF items[i].rest # <<>> \/ i = Len(items)
    THEN [text |-> items[i].rest, next |-> i + 1]
    ELSE [text |-> FirstLine(items[i + 1], marker),
          next |-> IF items[i + 1].kind = "method" /\ items[i + 1].summary.t = "str"
                   THEN i + 1 ELSE i + 2]

\* the match at the comment items[i]: the comment with the text its group took
CommentMatch(items, i, marker) ==
    [items[i] EXCEPT !.rest = Captured(items, i, marker).text]

\* the attribute names the Strategy A pattern accepts after '['
Markers == {"Fact", "Test", "TestCase"}

\* the pattern of Strategy A matches at this item
MatchA(item) == item.kind = "method" /\ item.attr \in Markers /\ item.async

\* faulty variant: the method name is used as it is
RecordAKeepsUnderscores(item, test_cases) ==
    PyDict([id |-> PyStr(TcId(Len(test_cases) + 1)),
            name |-> IF Truthy(item.summary) THEN item.summary ELSE PyStr(item.method)])

\* the record Strategy A appends for a match, given the records so far
RecordA(item, test_cases) ==
    LET tc_name == item.method
        summary == item.summary
        tc_id == TcId(Len(test_cases) + 1)
        display_name == IF Truthy(summary) THEN summary
                        ELSE PyStr(Replace(tc_name, "_", " "))
    IN PyDict([id |-> PyStr(tc_id), name |-> display_name])

RECURSIVE StrategyAFrom(_, _, _)
StrategyAFrom(items, i, test_cases) ==
    IF i > Len(items) THEN test_cases
    ELSE StrategyAFrom(items, i + 1,
             IF MatchA(items[i]) THEN Append(test_cases, RecordA(items[i], test_cases))
             ELSE test_cases)

\* re.finditer(pattern, content) of Strategy A, from test_cases = []
StrategyA(items) == StrategyAFrom(items, 1, <<>>)

\* \[TestCase\s*\(([^)]*)\)\]  or  //\s*TestCase:\s*(.*)  matches at this item
MatchB(item) == \/ item.kind = "method" /\ item.attr = "TestCase" /\ item.parens
                \/ item.kind = "comment"

\* match.group(1) and match.group(2) of the Strategy B pattern
Group1(item) == IF item.kind = "method" THEN PyStr(item.args) ELSE PyNone
Group2(item) == IF item.kind = "comment" THEN PyStr(item.rest) ELSE PyNone

\* [x.strip(chars) for x in text.split(',')]
SplitStrip(text, chars) ==
    LET parts == Split(text, ",")
    IN [k \in 1..Len(parts) |-> Strip(parts[k], chars)]

\* the record Strategy B appends for a match, given the records so far
RecordB(item, test_cases) ==
    LET args == SplitStrip(item.args, QuoteOrSpace)
        tc_id == IF Truthy(Group1(item))
                 THEN (IF Len(args) > 0 THEN PyStr(args[1]) ELSE PyNone)
                 ELSE PyNone
        tc_name == IF Truthy(Group1(item))
                   THEN (IF Len(args) > 1 THEN PyStr(args[2]) ELSE PyNone)
                   ELSE Group2(item)
    IN PyDict([id |-> Or(tc_id, PyStr(TcId(Len(test_cases) + 1))),
               name |-> Or(tc_name, PyStr(UnnamedTest))])

RECURSIVE StrategyBFrom(_, _, _)
StrategyBFrom(items, i, test_cases) ==
    IF i > Len(items) THEN test_cases
    ELSE IF items[i].kind = "comment"
    THEN StrategyBFrom(items, Captured(items, i, <<"/", "/">>).next,
             Append(test_cases, RecordB(CommentMatch(items, i, <<"/", "/">>), test_cases)))
    ELSE StrategyBFrom(items, i + 1,
             IF MatchB(items[i]) THEN Append(test_cases, RecordB(items[i], test_cases))
             ELSE test_cases)

\* the fallback loop, entered with the (empty) list Strategy A left
StrategyB(items, test_cases) == StrategyBFrom(items, 1, test_cases)

\* faulty variant: the fallback scan runs whatever Strategy A found
ExtractCsBothStrategies(items) ==
    LET a == StrategyA(items)
    IN [recordsA |-> a, ranB |-> TRUE, test_cases |-> StrategyB(items, a)]

\* the .cs branch: Strategy A, then Strategy B if A left test_cases empty
ExtractCs(items) ==
    LET a == StrategyA(items)
    IN [recordsA |-> a, ranB |-> (a = <<>>),
        test_cases |-> IF a = <<>> THEN StrategyB(items, a) ELSE a]

\* #\s*TestCase:\s*(.*) matches at this item
MatchC(item) == item.kind = "comment"

\* the record Strategy C appends for a match, given the records so far
RecordC(item, test_cases) ==
    LET parts == SplitStrip(item.rest, Whitespace)
        tc_id == IF Len(parts) > 0 THEN PyStr(parts[1]) ELSE PyNone
        tc_name == IF Len(parts) > 1 THEN PyStr(parts[2]) ELSE PyNone
    IN PyDict([id |-> Or(tc_id, PyStr(TcId(Len(test_cases) + 1))),
               name |-> Or(tc_name, PyStr(UnnamedTest))])

RECURSIVE StrategyCFrom(_, _, _)
StrategyCFrom(items, i, test_cases) ==
    IF i > Len(items) THEN test_cases
    ELSE IF MatchC(items[i])
    THEN StrategyCFrom(items, Captured(items, i, <<"#">>).next,
             Append(test_cases, RecordC(CommentMatch(items, i, <<"#">>), test_cases)))
    ELSE StrategyCFrom(items, i + 1, test_cases)

\* the .py branch
StrategyC(items) == StrategyCFrom(items, 1, <<>>)

\* ----------------------------------------------------------------- loader
\* json.loads raised JSONDecodeError
InvalidJson == [t |-> "invalid"]

Outcome(result, msg, selected, recordsA, ranA, ranB, ranC) ==
    [result |-> result, msg |-> msg, selected |-> selected, recordsA |-> recordsA,
     ranA |-> ranA, ranB |-> ranB, ranC |-> ranC]

\* faulty variant: the extension is compared as written
ExtCaseSensitive(input_file) == Suffix(input_file)

\* the extension the branches are selected on
Ext(input_file) == Lower(Suffix(input_file))

\* load_test_cases_from_file: the value returned, the diagnostic printed and
\* the branch taken.  fstate: "missing" (open raises FileNotFoundError),
\* "unreadable" (open or read raises another exception), "readable".
LoadTestCasesFromFile(input_file, fstate, text) ==
    LET ext == Ext(input_file)
        cs == ExtractCs(text.items)
    IN CASE fstate = "missing" ->
              Outcome(PyNone, "not_found", "none", <<>>, FALSE, FALSE, FALSE)
         [] fstate = "unreadable" ->
              Outcome(PyNone, "load_error", "none", <<>>, FALSE, FALSE, FALSE)
         [] fstate = "readable" /\ ext = <<".", "j", "s", "o", "n">> ->
              IF text.json = InvalidJson
              THEN Outcome(PyNone, "invalid_json", "json", <<>>, FALSE, FALSE, FALSE)
              ELSE Outcome(text.json, "none", "json", <<>>, FALSE, FALSE, FALSE)
         [] fstate = "readable" /\ ext = <<".", "c", "s">> ->
              Outcome(PyList(cs.test_cases), "none", "cs", cs.recordsA, TRUE, cs.ranB, FALSE)
         [] fstate = "readable" /\ ext = <<".", "p", "y">> ->
              Outcome(PyList(StrategyC(text.items)), "none", "py", <<>>, FALSE, FALSE, TRUE)
         [] OTHER ->
              Outcome(PyNone, "unsupported", "none", <<>>, FALSE, FALSE, FALSE)

\* ------------------------------------------------------------------ inputs
SeqsUpTo(S, n) == UNION {[1..k -> S] : k \in 0..n}

Absent == [t |-> "absent"]

\* the value a fully filled record holds under each key other than id and status
RichValue(k) == CASE k = "name" -> <<"X">>
                  [] k = "description" -> <<"d">>
                  [] k = "preconditions" -> <<"p">>
                  [] k = "steps" -> <<"s">>
                  [] k = "expected_result" -> <<"e">>
                  [] k = "actual_result" -> <<"a">>
                  [] k = "priority" -> <<"H">>
                  [] k = "test_type" -> <<"t">>

\* a JSON object with the given id and status (or without them), and either
\* all or none of the other eight keys
Rec(id, status, rich) ==
    LET keys == (IF id = Absent THEN {} ELSE {"id"})
                \cup (IF status = Absent THEN {} ELSE {"status"})
                \cup (IF rich THEN Fields \ {"id", "status"} ELSE {})
    IN PyDict([k \in keys |-> CASE k = "id" -> id
                                [] k = "status" -> status
                                [] OTHER -> PyStr(RichValue(k))])

JsonIds == {Absent, PyNone, PyStr(<<>>), PyStr(<<"T", "C", "_", "0", "0", "2">>)}
JsonStatuses == {Absent, PyStr(<<"P", "a", "s", "s">>), PyInt(5)}

\* the elements a JSON array can hold: objects, and a number
JsonRecords == {Rec(i, s, r) : i \in JsonIds, s \in JsonStatuses, r \in BOOLEAN}
               \cup {PyInt(1)}

\* what json.loads can return: arrays, numbers, null
JsonDocuments == {PyList(l) : l \in SeqsUpTo(JsonRecords, MaxRecords)}
                 \cup {PyInt(5), PyInt(0), PyNone}

Login_Succeeds == <<"L", "o", "g", "i", "n", "_", "S", "u", "c", "c", "e", "e", "d", "s">>
Add_Item_Works == <<"A", "d", "d", "_", "I", "t", "e", "m", "_", "W", "o", "r", "k", "s">>
AddsItems == <<"A", "d", "d", "s", " ", "i", "t", "e", "m", "s">>

CsItems ==
    {Method("Fact", FALSE, <<>>, PyNone, TRUE, Login_Succeeds),
     Method("Test", FALSE, <<>>, PyStr(AddsItems), TRUE, Add_Item_Works),
     Method("TestCase", TRUE,
            <<"\"", "T", "C", "_", "0", "0", "7", "\"", ",", " ", "\"", "S", "u", "m", "\"">>,
            PyStr(<<>>), TRUE, <<"A", "_", "_", "b">>),
     Method("Theory", FALSE, <<>>, PyNone, TRUE, <<"T">>),
     Method("Fact", FALSE, <<>>, PyNone, FALSE, <<"S", "_", "T">>),
     Method("TestCase", TRUE,
            <<"\"", "T", "C", "_", "0", "0", "2", "\"", ",", "\"", "A", "\"">>,
            PyNone, FALSE, <<"M">>),
     Method("TestCase", TRUE, <<"\"", "T", "C", "_", "0", "0", "2", "\"">>,
            PyNone, FALSE, <<"M">>),
     Method("TestCase", TRUE, <<>>, PyNone, FALSE, <<"M">>),
     Method("TestCase", TRUE, <<"\"", " ", "\"", ",", "\"", "\"">>, PyNone, FALSE, <<"M">>),
     Method("TestCase", FALSE, <<>>, PyNone, FALSE, <<"M">>),
     Method("TestCase", TRUE, <<"\"", "T", "C", "_", "0", "0", "9", "\"">>,
            PyStr(AddsItems), FALSE, <<"M">>),
     Comment(<<"B">>),
     Comment(<<>>),
     OtherText}

PyItems ==
    {Comment(<<"T", "C", "_", "0", "0", "2", ",", " ", "A">>),
     Comment(<<"T", "C", "_", "0", "0", "2">>),
     Comment(<<",", "B">>),
     Comment(<<>>),
     OtherText}

Paths == {<<"t", ".", "j", "s", "o", "n">>, <<"t", ".", "J", "S", "O", "N">>,
          <<"t", ".", "c", "s">>, <<"t", ".", "C", "s">>,
          <<"t", ".", "p", "y">>, <<"t", ".", "P", "Y">>,
          <<"t", ".", "t", "x", "t">>, <<"t">>,
          <<".", "j", "s", "o", "n">>, <<"d", ".", "c", "s", "/", "t">>}

FileStates == {"missing", "unreadable", "readable"}

Text(json, items) == [json |-> json, items |-> items]

\* the texts a file of this name can hold: a JSON document or broken JSON in a
\* .json file, source items in a .cs or .py file
Contents(path, fstate) ==
    IF fstate # "readable" THEN {Text(InvalidJson, <<>>)}
    ELSE CASE Ext(path) = <<".", "j", "s", "o", "n">> ->
                {Text(j, <<>>) : j \in JsonDocuments \cup {InvalidJson}}
           [] Ext(path) = <<".", "c", "s">> ->
                {Text(InvalidJson, i) : i \in SeqsUpTo(CsItems, MaxItems)}
           [] Ext(path) = <<".", "p", "y">> ->
                {Text(InvalidJson, i) : i \in SeqsUpTo(PyItems, MaxItems)}
           [] OTHER -> {Text(InvalidJson, <<>>)}

\* ------------------------------------------------------------------- state
VARIABLES
    input_filename,  \* sys.argv[1]
    fileState,       \* what open() and read() do on it
    content,         \* what the file holds
    pc,              \* position in the main block
    test_cases,      \* the value load_test_cases_from_file returned
    load,            \* diagnostic and branch of the load
    attempts,        \* how often each sink was tried
    results,         \* export_all_formats' results dict
    rendered,        \* what each sink computed for the batch
    files            \* output files written

vars == <<input_filename, fileState, content, pc, test_cases, load, attempts,
          results, rendered, files>>

Sinks == {"word", "excel", "pdf"}

NotRendered == [ok |-> FALSE, rows |-> <<"not rendered">>]

Init ==
    /\ input_filename \in Paths
    /\ fileState \in FileStates
    /\ content \in Contents(input_filename, fileState)
    /\ pc = "start"
    /\ test_cases = PyNone
    /\ load = Outcome(PyNone, "none", "none", <<>>, FALSE, FALSE, FALSE)
    /\ attempts = [s \in Sinks |-> 0]
    /\ results = <<>>
    /\ rendered = [s \in Sinks |-> NotRendered]
    /\ files = {}

\* test_cases = load_test_cases_from_file(input_filename)
Load ==
    /\ pc = "start"
    /\ load' = LoadTestCasesFromFile(input_filename, fileState, content)
    /\ test_cases' = load'.result
    /\ pc' = "loaded"
    /\ UNCHANGED <<input_filename, fileState, content, attempts, results, rendered, files>>

\* faulty variant: export_all_formats is called whatever the load returned
MainProceedUnchecked ==
    /\ pc = "loaded"
    /\ pc' = "word"
    /\ UNCHANGED <<input_filename, fileState, content, test_cases, load, attempts,
                   results, rendered, files>>

\* if test_cases: the summary loop, then the call of export_all_formats
MainProceed ==
    /\ pc = "loaded"
    /\ Truthy(test_cases)
    /\ pc' = IF AllMappings(test_cases) THEN "word" ELSE "crashed"
    /\ UNCHANGED <<input_filename, fileState, content, test_cases, load, attempts,
                   results, rendered, files>>

\* else: "Cannot proceed without test cases."
MainAbort ==
    /\ pc = "loaded"
    /\ ~Truthy(test_cases)
    /\ pc' = "aborted"
    /\ UNCHANGED <<input_filename, fileState, content, test_cases, load, attempts,
                   results, rendered, files>>

\* Path(input_filename).stem + "_output"
BaseFilename == Stem(input_filename) \o <<"_", "o", "u", "t", "p", "u", "t">>

\* what the environment does to a sink: the module imports and the file is
\* written, the import fails, or rendering / saving raises
SinkEnv == {"ok", "import_error", "exception"}

\* one try block of export_all_formats
TrySink(sink, at, next, computed, file, env) ==
    /\ pc = at
    /\ attempts' = [attempts EXCEPT ![sink] = @ + 1]
    /\ IF env = "ok" /\ computed.ok
       THEN /\ results' = [k \in DOMAIN results \cup {sink} |->
                              IF k = sink THEN file ELSE results[k]]
            /\ files' = files \cup {file}
       ELSE UNCHANGED <<results, files>>
    /\ rendered' = [rendered EXCEPT ![sink] = IF env = "ok" THEN computed ELSE @]
    /\ pc' = next
    /\ UNCHANGED <<input_filename, fileState, content, test_cases, load>>

ExportWord ==
    \E env \in SinkEnv :
        TrySink("word", "word", "excel", CreateTestCaseWord(test_cases),
                BaseFilename \o <<".", "d", "o", "c", "x">>, env)

\* faulty variant: a failing Excel sink ends the export
ExportExcelStopsOnFailure ==
    \E env \in SinkEnv :
        TrySink("excel", "excel",
                IF env = "ok" /\ CreateTestCaseExcel(test_cases).ok THEN "pdf" ELSE "done",
                CreateTestCaseExcel(test_cases),
                BaseFilename \o <<".", "x", "l", "s", "x">>, env)

ExportExcel ==
    \E env \in SinkEnv :
        TrySink("excel", "excel", "pdf", CreateTestCaseExcel(test_cases),
                BaseFilename \o <<".", "x", "l", "s", "x">>, env)

ExportPdf ==
    \E env \in SinkEnv :
        TrySink("pdf", "pdf", "done", CreateTestCasePdf(test_cases),
                BaseFilename \o <<".", "p", "d", "f">>, env)

Next == Load \/ MainProceed \/ MainAbort \/ ExportWord \/ ExportExcel \/ ExportPdf

Spec == Init /\ [][Next]_vars

\* ------------------------------------------------------------------ claims
\* the batch reached the sinks and this sink computed its rows
Rows(s) == rendered[s].rows
HasId(i) == "id" \in DOMAIN test_cases.l[i].d

\* C1 (as stated): a record without an 'id' key is displayed by every sink as
\* TC_<k>, k being its 1-based position among the id-less records of the batch.
C1_IdByIdlessRank ==
    \A s \in Sinks : rendered[s].ok =>
        \A i \in 1..Len(Rows(s)) :
            ~HasId(i) => Rows(s)[i].id = TcId(IdlessRank(test_cases.l, i))

\* C1 (amended): a record without an 'id' key is displayed by every sink as
\* TC_<k>, k being its 1-based position among all records of the batch; the
\* synthesized ids of one batch never repeat.
C1_IdByBatchPosition ==
    \A s \in Sinks : rendered[s].ok =>
        /\ \A i \in 1..Len(Rows(s)) : ~HasId(i) => Rows(s)[i].id = TcId(i)
        /\ \A i, j \in 1..Len(Rows(s)) :
               ~HasId(i) /\ ~HasId(j) /\ i # j => Rows(s)[i].id # Rows(s)[j].id

\* a batch whose second record has no id and whose first has one was rendered
\* by all three sinks
C1_Witness ==
    /\ pc = "done"
    /\ \A s \in Sinks : rendered[s].ok
    /\ Len(test_cases.l) >= 2
    /\ HasId(1) /\ ~HasId(2)
    /\ Rows("word")[2].id = <<"T", "C", "_", "0", "0", "2">>

\* the documented default of each display field
DefaultOf(k, position) ==
    CASE k = "id" -> TcId(position)
      [] k = "name" -> UnnamedTest
      [] k \in {"description", "preconditions", "steps", "expected_result"} -> NA
      [] k = "actual_result" -> <<>>
      [] k = "status" -> NotExecuted
      [] k = "priority" -> Medium
      [] k = "test_type" -> Functional

\* C2 (as stated): the sinks that were given the batch all compute the same ten
\* display values for each record, absent keys taking the documented defaults,
\* and none fails on a batch another one renders.
C2_SinksAgree ==
    \A s, t \in Sinks :
        rendered[s] # NotRendered /\ rendered[t] # NotRendered =>
            /\ rendered[s] = rendered[t]
            /\ rendered[s].ok =>
                   \A i \in 1..Len(Rows(s)) : \A k \in Fields :
                       k \notin DOMAIN test_cases.l[i].d => Rows(s)[i][k] = DefaultOf(k, i)

\* C3 (as stated): the ids of a batch extracted from .cs or .py source are
\* pairwise distinct.
C3_ExtractedIdsDistinct ==
    pc # "start" /\ load.selected \in {"cs", "py"} =>
        \A i, j \in 1..Len(test_cases.l) :
            i # j => test_cases.l[i].d.id # test_cases.l[j].d.id

\* C4 (as stated): no sink renders an empty id for any record.
C4_RenderedIdNonEmpty ==
    \A s \in Sinks : rendered[s].ok =>
        \A i \in 1..Len(Rows(s)) : Rows(s)[i].id # <<>>

\* the number of items of the text a pattern matches
CountA == Len(SelectSeq(content.items, MatchA))
CountB == Len(SelectSeq(content.items, MatchB))

\* C5: on a .cs file Strategy A runs; Strategy B runs iff A produced no record;
\* the batch is A's records when there are any and B's alone otherwise; A
\* produces nothing when its pattern matches nowhere.
C5_StrategyOrder ==
    pc # "start" /\ load.selected = "cs" =>
        /\ load.ranA
        /\ load.ranB <=> (load.recordsA = <<>>)
        /\ CountA = 0 => load.recordsA = <<>>
        /\ load.recordsA # <<>> => test_cases = PyList(load.recordsA)
        /\ CountA > 0 => Len(test_cases.l) = CountA
        /\ CountA = 0 => test_cases.l = StrategyB(content.items, <<>>)

\* a .cs text that both patterns match was loaded: A's records alone are returned
C5_Witness ==
    /\ pc = "loaded" /\ load.selected = "cs"
    /\ CountA > 0 /\ CountB > 0
    /\ ~load.ranB
    /\ Len(test_cases.l) = CountA

\* C6: export_all_formats tries Word, Excel and PDF once each, in that order,
\* whatever the earlier sinks did, and results has an entry for a sink iff the
\* sink completed without raising.
C6_SinksIsolated ==
    /\ pc = "word" => attempts = [s \in Sinks |-> 0]
    /\ pc = "excel" => attempts = [s \in Sinks |-> IF s = "word" THEN 1 ELSE 0]
    /\ pc = "pdf" => attempts = [s \in Sinks |-> IF s = "pdf" THEN 0 ELSE 1]
    /\ pc = "done" => attempts = [s \in Sinks |-> 1]
    /\ \A s \in Sinks : s \in DOMAIN results <=> rendered[s].ok
    /\ Cardinality(files) = Cardinality(DOMAIN results)

\* the Word sink failed and the PDF sink was still tried and completed
C6_Witness ==
    /\ pc = "done"
    /\ "word" \notin DOMAIN results
    /\ attempts["pdf"] = 1
    /\ "pdf" \in DOMAIN results

\* the outcome of the two handlers that end a load whose file cannot be read
NotFoundOutcome == test_cases = PyNone /\ load.msg \in {"not_found", "load_error"}

\* C7: when the input path is not a readable file the load ends in the
\* NotFound outcome with no records, no sink is invoked and no file is written.
C7_UnreadableAborts ==
    pc # "start" /\ fileState # "readable" =>
        /\ NotFoundOutcome
        /\ pc \in {"loaded", "aborted"}
        /\ attempts = [s \in Sinks |-> 0]
        /\ results = <<>>
        /\ files = {}

\* the run of a missing file has ended
C7_Witness ==
    pc = "aborted" /\ fileState = "missing" /\ load.msg = "not_found" /\ files = {}

\* a and b are equal up to the case of their letters
SameIgnoringCase(a, b) ==
    /\ Len(a) = Len(b)
    /\ \A i \in 1..Len(a) :
           \/ a[i] = b[i]
           \/ \E k \in 1..26 : {a[i], b[i]} = {UpperCase[k], LowerCase[k]}

IsJson(p) == SameIgnoringCase(Suffix(p), <<".", "j", "s", "o", "n">>)
IsCs(p) == SameIgnoringCase(Suffix(p), <<".", "c", "s">>)
IsPy(p) == SameIgnoringCase(Suffix(p), <<".", "p", "y">>)

\* the branch the extension selects, compared case-insensitively
SelectedByExtension ==
    /\ IsJson(input_filename) => load.selected = "json"
    /\ IsCs(input_filename) => load.selected = "cs" /\ load.ranA
    /\ IsPy(input_filename) => load.selected = "py" /\ load.ranC
    /\ ~(IsJson(input_filename) \/ IsCs(input_filename) \/ IsPy(input_filename)) =>
           load.msg = "unsupported" /\ test_cases = PyNone /\ load.selected = "none"

\* C8 (as stated): every path whose extension is none of .json, .cs, .py ends
\* in UnsupportedFormat, and the three extensions select their branch in any
\* letter case.
C8_ExtensionDecides ==
    pc # "start" => SelectedByExtension

\* C8 (amended): the same for every path that is a readable file; a path that
\* cannot be read ends in the NotFound outcome whatever its extension.
C8_ExtensionDecidesWhenReadable ==
    pc # "start" =>
        /\ fileState = "readable" => SelectedByExtension
        /\ fileState # "readable" => NotFoundOutcome /\ load.selected = "none"

\* a readable file with an unrecognised extension was refused
C8_Witness ==
    /\ pc = "aborted" /\ fileState = "readable"
    /\ input_filename = <<"t", ".", "t", "x", "t">>
    /\ load.msg = "unsupported"

\* the name Strategy A gives a match
NameA(item) == IF item.summary.t = "str" /\ item.summary.s # <<>>
               THEN item.summary.s
               ELSE Replace(item.method, "_", " ")

\* C9: Strategy A emits one record per match in order; the i-th has id TC_<i>
\* (never an id of the source) and as name the summary when there is a
\* non-empty one, else the method name with underscores turned into spaces; one
\* async test method Login_Succeeds without summary gives exactly
\* {id: TC_001, name: Login Succeeds}.
C9_StrategyARecords ==
    pc # "start" /\ load.selected = "cs" =>
        LET matches == SelectSeq(content.items, MatchA)
        IN /\ Len(load.recordsA) = Len(matches)
           /\ \A i \in 1..Len(matches) :
                  /\ load.recordsA[i].d.id = PyStr(TcId(i))
                  /\ load.recordsA[i].d.name = PyStr(NameA(matches[i]))
           /\ content.items = <<Method("Fact", FALSE, <<>>, PyNone, TRUE, Login_Succeeds)>> =>
                  test_cases.l =
                      <<PyDict([id |-> PyStr(<<"T", "C", "_", "0", "0", "1">>),
                                name |-> PyStr(<<"L", "o", "g", "i", "n", " ",
                                                 "S", "u", "c", "c", "e", "e", "d", "s">>)])>>

\* the text with the single method Login_Succeeds was loaded
C9_Witness ==
    /\ pc = "loaded" /\ load.selected = "cs"
    /\ content.items = <<Method("Fact", FALSE, <<>>, PyNone, TRUE, Login_Succeeds)>>
    /\ Len(test_cases.l) = 1
    /\ test_cases.l[1].d.id = PyStr(<<"T", "C", "_", "0", "0", "1">>)

\* the arguments of a parenthesized marker, stripped of quotes and spaces
ArgsOf(item) == IF item.kind = "method" /\ item.args # <<>>
                THEN SplitStrip(item.args, QuoteOrSpace) ELSE <<>>

\* the id and the name the source gives a Strategy B match (<<>> when it gives none)
SourceIdB(item) == IF Len(ArgsOf(item)) >= 1 THEN ArgsOf(item)[1] ELSE <<>>
SourceNameB(item) == IF item.kind = "comment" THEN item.rest
                     ELSE IF Len(ArgsOf(item)) >= 2 THEN ArgsOf(item)[2] ELSE <<>>

\* C10: Strategy B emits one record per match of either sub-pattern in source
\* order; the id is the marker's first argument and the name its second (or the
\* rest of a '// TestCase:' comment); an absent or empty id is TC_<n>, n the
\* 1-based index of the record among all records of the strategy, and an absent
\* or empty name is 'Unnamed Test'.
C10_StrategyBRecords ==
    pc # "start" /\ load.selected = "cs" /\ load.ranB =>
        LET matches == SelectSeq(content.items, MatchB)
        IN /\ Len(test_cases.l) = Len(matches)
           /\ \A n \in 1..Len(matches) :
                  /\ test_cases.l[n].d.id =
                         PyStr(IF SourceIdB(matches[n]) # <<>> THEN SourceIdB(matches[n])
                               ELSE TcId(n))
                  /\ test_cases.l[n].d.name =
                         PyStr(IF SourceNameB(matches[n]) # <<>> THEN SourceNameB(matches[n])
                               ELSE UnnamedTest)

\* the first and second comma-separated component of a comment's rest, trimmed
PartsC(item) == SplitStrip(item.rest, Whitespace)
SourceIdC(item) == PartsC(item)[1]
SourceNameC(item) == IF Len(PartsC(item)) >= 2 THEN PartsC(item)[2] ELSE <<>>

\* C11 (as stated): Strategy C emits one record per '# TestCase: <rest>'
\* comment in source order, with the trimmed first and second comma-separated
\* components of <rest> as id and name; a missing or empty id is TC_<n>, n the
\* 1-based index of the record, a missing or empty name is 'Unnamed Test'; a
\* text without such a comment gives the empty list and no error.
C11_StrategyCRecords ==
    pc # "start" /\ load.selected = "py" =>
        LET comments == SelectSeq(content.items, MatchC)
        IN /\ load.msg = "none"
           /\ test_cases.t = "list"
           /\ Len(test_cases.l) = Len(comments)
           /\ \A n \in 1..Len(comments) :
                  /\ test_cases.l[n].d.id =
                         PyStr(IF SourceIdC(comments[n]) # <<>> THEN SourceIdC(comments[n])
                               ELSE TcId(n))
                  /\ test_cases.l[n].d.name =
                         PyStr(IF SourceNameC(comments[n]) # <<>>
                               THEN SourceNameC(comments[n]) ELSE UnnamedTest)

\* export_all_formats has been called
ExportInvoked == pc \in {"word", "excel", "pdf", "done"}

\* the load returned a sequence with at least one element
NonEmptySequence == test_cases.t = "list" /\ test_cases.l # <<>>

\* C12 (as stated): once the main block has looked at the result of the load,
\* export_all_formats has been invoked iff the load returned a non-empty
\* sequence; an empty sequence ends the run like a load error, with no sink
\* invoked.
C12_ExportIffNonEmpty ==
    pc \notin {"start", "loaded"} =>
        /\ ExportInvoked <=> NonEmptySequence
        /\ test_cases = PyList(<<>>) =>
               pc = "aborted" /\ attempts = [s \in Sinks |-> 0] /\ files = {}

====
